---- MODULE Spec2Model ----
(***************************************************************************)
(* Model of src/main.ts of deno-netatmo-temperature-api: the token         *)
(* bootstrap (initializeTokens), the token exchange with its fallback      *)
(* (refreshToken), the scheduled tick (updateWeatherData), the station     *)
(* data fetch (fetchWeatherData) and the read endpoint, all running on one *)
(* cooperative event loop against a Deno KV store.  A step of the model is *)
(* the code that runs between two awaits.                                  *)
(***************************************************************************)
EXTENDS Integers, Sequences, FiniteSets, TLC

\* Number of updateWeatherData invocations the model starts: the first one
\* is awaited by main, the others are fired by setInterval and may overlap.
MaxTicks == 3

VARIABLES
  env,        \* env["NETATMO_REFRESH_TOKEN"], fixed for the run
  kv,         \* the three keys of the Deno KV store
  mainpc,     \* position of main() / initializeTokens()
  boot,       \* locals of initializeTokens and of its refreshToken call
  tick,       \* locals of each updateWeatherData invocation
  started,    \* number of updateWeatherData invocations started so far
  clock,      \* Date.now()
  seeded,     \* history: bootstrap exchanged the configured token, the store
              \* holding none, and got a complete pair for it
  lastWriter, \* history: the invocation that wrote weatherData last (0: none)
  overlapped, \* history: an invocation was started while another was running
  lastBody,   \* body of the last response of the read endpoint
  stationsData \* body.devices of the station-data response that SpecFetch
              \* hands to fetchWeatherData; Spec draws the responses in TickFetch

vars == <<env, kv, mainpc, boot, tick, started, clock, seeded, lastWriter,
          overlapped, lastBody, stationsData>>

----------------------------------------------------------------------------
(* Values *)

Tok(kind, n) == [k |-> kind, n |-> n]

\* kv.get of a key that was never set yields value null
Absent == Tok("absent", 0)
\* a field missing from a JSON body reads as undefined
Undefined == Tok("undefined", 0)
\* `?? ""` of an unset environment variable
Empty == Tok("empty", 0)
\* no request in flight
NoReq == Tok("none", 0)

\* JavaScript truthiness of a string | undefined | null
Truthy(v) == v.k \notin {"absent", "undefined", "empty"}

\* The refresh token of the configuration, and a refresh token and an access
\* token left in the store by an earlier run
EnvToken == Tok("R_env", 0)
OldRefresh == Tok("R_old", 0)
OldAccess == Tok("A_old", 0)

\* The pair the token endpoint issues to caller `by` (0: initializeTokens,
\* i: the i-th updateWeatherData); a caller gets at most one pair
NewAccess(by) == Tok("A", by)
NewRefresh(by) == Tok("R", by)

Snapshot(t, p, ts) == [k |-> "snapshot", temperature |-> t, pressure |-> p, timestamp |-> ts]
OldSnapshot == Snapshot(7, 990, 0)

Ticks == 1..MaxTicks

----------------------------------------------------------------------------
(* refreshToken, main.ts lines 66-105 *)

\* What `await fetch(REFRESH_TOKEN_ENDPOINT, ...)` can resume with: a 2xx
\* response, a non-2xx response, or an exception
FetchOutcomes == {"ok", "reject", "throw"}

\* What `await response.json()` of a 2xx response can yield to caller `by`:
\* a body whose two fields may each be missing
TokenBodies(by) ==
  { [access_token |-> a, refresh_token |-> r] :
      a \in {NewAccess(by), Undefined}, r \in {NewRefresh(by), Undefined} }

\* Variant: the retry is made whenever a token is configured, even the one
\* that was just rejected
RetriesWithEnvAlways(previousRefreshToken) == Truthy(env)

\* Whether refreshToken(previousRefreshToken) calls itself with the
\* configured token after a non-2xx response (line 89)
RetriesWithEnv(previousRefreshToken) ==
  Truthy(env) /\ env # previousRefreshToken

\* Locals of one top-level refreshToken call: the token of the request in
\* flight, the token the call was made with, the requests sent so far, the
\* status of the response being read, the pair returned.  A local that the
\* code no longer reads is reset.
NoPair == [access_token |-> Undefined, refresh_token |-> Undefined]
NoCall == [req |-> NoReq, first |-> NoReq, attempts |-> 0, status |-> "none",
           pair |-> NoPair]

\* refreshToken(token) is called and sends its request (lines 68-81)
CallRefreshToken(token) ==
  [NoCall EXCEPT !.req = token, !.first = token, !.attempts = 1]

\* `await fetch` resumes with a response (line 75)
GotResponse(call, status) == [call EXCEPT !.status = status]

\* line 91: return refreshToken(envRefreshToken)
RetryWithEnv(call) ==
  [call EXCEPT !.req = env, !.attempts = @ + 1, !.status = "none"]

\* lines 97-101: the pair is returned
Returned(call, body) ==
  [call EXCEPT !.req = NoReq, !.first = NoReq, !.status = "none", !.pair = body]

----------------------------------------------------------------------------
(* Initial state: the store may hold what an earlier run left in it *)

\* Locals of one updateWeatherData invocation; wdBefore and dirty are
\* history: the weatherData of the store when the invocation started, and
\* whether another invocation has written weatherData since
IdleTick == [pc |-> "idle", rt |-> Absent, at |-> Absent, call |-> NoCall,
             wd |-> Absent, wdBefore |-> Absent, dirty |-> FALSE]

NoBoot == [existing |-> Absent, call |-> NoCall, err |-> "none"]

Init ==
  /\ env \in {Empty, EnvToken}
  /\ kv \in [refreshToken : {Absent, EnvToken, OldRefresh},
             accessToken : {Absent, OldAccess},
             weatherData : {Absent, OldSnapshot}]
  /\ mainpc = "boot_get"
  /\ boot = NoBoot
  /\ tick = [i \in Ticks |-> IdleTick]
  /\ started = 0
  /\ clock = 1
  /\ seeded = FALSE
  /\ lastWriter = 0
  /\ overlapped = FALSE
  /\ lastBody = Absent
  /\ stationsData = << >>

----------------------------------------------------------------------------
(* initializeTokens, main.ts lines 107-127; its throw ends main (line 200) *)

\* Variant: the configured token is preferred to the stored one
TokenToUseEnvFirst(existing) == IF Truthy(env) THEN env ELSE existing

\* Variant: a built-in token is used when none is stored or configured
TokenToUseBuiltIn(existing) ==
  IF Truthy(existing) THEN existing ELSE IF Truthy(env) THEN env ELSE OldRefresh

\* tokenToUse = existingToken.value || envRefreshToken (line 113)
TokenToUse(existing) == IF Truthy(existing) THEN existing ELSE env

\* The catch of lines 123-126 rethrows: main() rejects, nothing is started
BootThrow(b, why) == [b EXCEPT !.call.req = NoReq, !.err = why]

\* kv.get(["refreshToken"]) resumes; without a token it throws, otherwise
\* refreshToken(tokenToUse) sends its request
BootGet ==
  /\ mainpc = "boot_get"
  /\ LET b == [boot EXCEPT !.existing = kv.refreshToken]
         tokenToUse == TokenToUse(kv.refreshToken) IN
       IF ~Truthy(tokenToUse)
       THEN /\ mainpc' = "aborted"
            /\ boot' = BootThrow(b, "no_token")
       ELSE /\ mainpc' = "boot_exchange"
            /\ boot' = [b EXCEPT !.call = CallRefreshToken(tokenToUse)]
  /\ UNCHANGED <<env, stationsData, kv, tick, started, clock, seeded, lastWriter, overlapped, lastBody>>

\* `await fetch` of initializeTokens' refreshToken resumes
BootResponse ==
  /\ mainpc = "boot_exchange"
  /\ \E status \in FetchOutcomes :
       IF status = "throw"
       THEN /\ mainpc' = "aborted"
            /\ boot' = BootThrow(boot, "thrown")
       ELSE /\ mainpc' = "boot_body"
            /\ boot' = [boot EXCEPT !.call = GotResponse(@, status)]
  /\ UNCHANGED <<env, stationsData, kv, tick, started, clock, seeded, lastWriter, overlapped, lastBody>>

\* `await response.text()` (line 84) or `await response.json()` (line 97)
\* of initializeTokens' refreshToken resumes
BootBody ==
  /\ mainpc = "boot_body"
  /\ IF boot.call.status = "reject"
     THEN IF RetriesWithEnv(boot.call.req)
          THEN /\ boot' = [boot EXCEPT !.call = RetryWithEnv(@)]
               /\ mainpc' = "boot_exchange"
               /\ UNCHANGED seeded
          ELSE /\ boot' = BootThrow(boot, "rejected")
               /\ mainpc' = "aborted"
               /\ UNCHANGED seeded
     ELSE \E body \in TokenBodies(0) :
            /\ boot' = [boot EXCEPT !.call = Returned(@, body)]
            /\ mainpc' = "boot_set_access"
            /\ seeded' = (/\ ~Truthy(boot.existing)
                          /\ boot.call.attempts = 1
                          /\ Truthy(body.access_token)
                          /\ Truthy(body.refresh_token))
  /\ UNCHANGED <<env, stationsData, kv, tick, started, clock, lastWriter, overlapped, lastBody>>

\* await kv.set(["accessToken"], tokenResponse.access_token)
BootSetAccess ==
  /\ mainpc = "boot_set_access"
  /\ kv' = [kv EXCEPT !.accessToken = boot.call.pair.access_token]
  /\ mainpc' = "boot_set_refresh"
  /\ UNCHANGED <<env, stationsData, boot, tick, started, clock, seeded, lastWriter, overlapped, lastBody>>

\* await kv.set(["refreshToken"], tokenResponse.refresh_token);
\* initializeTokens returns and main goes on to its first updateWeatherData()
BootSetRefresh ==
  /\ mainpc = "boot_set_refresh"
  /\ kv' = [kv EXCEPT !.refreshToken = boot.call.pair.refresh_token]
  /\ boot' = NoBoot
  /\ mainpc' = "first_tick"
  /\ UNCHANGED <<env, stationsData, tick, started, clock, seeded, lastWriter, overlapped, lastBody>>

----------------------------------------------------------------------------
(* fetchWeatherData, main.ts lines 143-175 *)

\* env["NETATMO_DEVICE_ID"], env["NETATMO_OUTDOOR_MODULE_ID"]
DeviceId == "dev"
ModuleId == "mod"

Num(n) == [k |-> "num", n |-> n]

\* obj.f of a JSON object: undefined when the field is missing
Get(obj, f) == IF f \in DOMAIN obj THEN obj[f] ELSE Undefined
\* obj?.f
Opt(obj, f) == IF obj = Undefined THEN Undefined ELSE Get(obj, f)
\* v ?? d, for a numeric field
Nullish(v, d) == IF v.k \in {"undefined", "absent"} THEN d ELSE v.n

\* Array.prototype.find on the _id field: the first match, or undefined
FindById(arr, id) ==
  IF \E i \in 1..Len(arr) : arr[i].id = id
  THEN arr[CHOOSE i \in 1..Len(arr) :
             /\ arr[i].id = id
             /\ \A j \in 1..(i - 1) : arr[j].id # id]
  ELSE Undefined

Station(devices) == FindById(devices, DeviceId)

\* `station?.modules.find(...)` throws a TypeError when the station is found
\* and has no modules array
FetchThrows(devices) ==
  Station(devices) # Undefined /\ "modules" \notin DOMAIN Station(devices)

\* Variant: the module is looked up in the first device of the response
OutdoorModuleOfFirst(devices) ==
  IF devices = << >> THEN Undefined
  ELSE FindById(devices[1].modules, ModuleId)

OutdoorModule(devices) ==
  IF Station(devices) = Undefined THEN Undefined
  ELSE FindById(Station(devices).modules, ModuleId)

\* The object fetchWeatherData returns for a 2xx body with these devices
fetchWeatherData(devices, now) ==
  Snapshot(Nullish(Opt(Opt(OutdoorModule(devices), "dashboard_data"), "Temperature"), 0),
           Nullish(Opt(Opt(Station(devices), "dashboard_data"), "Pressure"), 0),
           now)

Module(id, dd) == [id |-> id, dashboard_data |-> dd]
Device(id, dd, modules) == [id |-> id, dashboard_data |-> dd, modules |-> modules]

\* The station-data body the scheduler's runs are checked with; the other
\* shapes of a body are the inputs of SpecFetch
StationBodies ==
  { <<Device(DeviceId, [Temperature |-> Num(19), Pressure |-> Num(1013)],
             <<Module("other", [Temperature |-> Num(30)]),
               Module(ModuleId, [Temperature |-> Num(21)])>>)>> }

\* What one GET of the station data can come back with: a 2xx body, or a
\* non-2xx response / a throwing fetch or json()
StationResponses ==
  { [kind |-> "ok", devices |-> d] : d \in StationBodies }
  \cup { [kind |-> "fail", devices |-> << >>] }


----------------------------------------------------------------------------
(* updateWeatherData, main.ts lines 177-195, with getStoredTokens 129-141 *)

Running(i) == tick[i].pc \notin {"idle", "done", "failed"}

\* The catch of lines 192-194: the error is logged and the invocation ends
Failed == [IdleTick EXCEPT !.pc = "failed"]
\* The invocation returns after line 191
Done == [IdleTick EXCEPT !.pc = "done"]

\* updateWeatherData() is called and getStoredTokens sends its first read
StartTick(i) ==
  /\ tick' = [tick EXCEPT ![i] = [IdleTick EXCEPT !.pc = "get_refresh",
                                                  !.wdBefore = kv.weatherData]]
  /\ started' = i
  /\ overlapped' = (overlapped \/ \E j \in Ticks : Running(j))

\* Variant: main catches the error of initializeTokens and goes on
FirstTickAnyway ==
  /\ mainpc \in {"first_tick", "aborted"}
  /\ started = 0
  /\ StartTick(1)
  /\ mainpc' = "first_tick"
  /\ UNCHANGED <<env, stationsData, kv, boot, clock, seeded, lastWriter, lastBody>>

\* main, line 203: await updateWeatherData()
FirstTick ==
  /\ mainpc = "first_tick"
  /\ started = 0
  /\ StartTick(1)
  /\ UNCHANGED <<env, stationsData, kv, mainpc, boot, clock, seeded, lastWriter, lastBody>>

\* main, lines 204-207: the awaited call has resolved; setInterval, Deno.serve
MainServe ==
  /\ mainpc = "first_tick"
  /\ started = 1
  /\ ~Running(1)
  /\ mainpc' = "serving"
  /\ UNCHANGED <<env, stationsData, kv, boot, tick, started, clock, seeded, lastWriter, overlapped, lastBody>>

\* The interval timer fires, whatever the earlier invocations are doing
TimerFire ==
  /\ mainpc = "serving"
  /\ started < MaxTicks
  /\ StartTick(started + 1)
  /\ UNCHANGED <<env, stationsData, kv, mainpc, boot, clock, seeded, lastWriter, lastBody>>

\* getStoredTokens: await kv.get(["refreshToken"]) resumes (line 130)
TickGetRefresh(i) ==
  /\ tick[i].pc = "get_refresh"
  /\ tick' = [tick EXCEPT ![i].rt = kv.refreshToken, ![i].pc = "get_access"]
  /\ UNCHANGED <<env, stationsData, kv, mainpc, boot, started, clock, seeded, lastWriter, overlapped, lastBody>>

\* Variants: the tick exchanges on every invocation; the test of line 182
\* is inverted
NeedsExchangeAlways(accessToken) == TRUE
NeedsExchangeInverted(accessToken) == Truthy(accessToken)

\* The tick exchanges when it read no usable access token (line 182)
NeedsExchange(accessToken) == ~Truthy(accessToken)

\* getStoredTokens: await kv.get(["accessToken"]) resumes (line 131); then
\* the throw of line 134, the refreshToken call of line 183, or the
\* fetchWeatherData call of line 189
TickGetAccess(i) ==
  /\ tick[i].pc = "get_access"
  /\ LET t == [tick[i] EXCEPT !.at = kv.accessToken, !.rt = Absent]
         refreshToken == tick[i].rt IN
       IF ~Truthy(refreshToken)
       THEN tick' = [tick EXCEPT ![i] = Failed]
       ELSE IF NeedsExchange(t.at)
       THEN tick' = [tick EXCEPT ![i] =
                       [t EXCEPT !.pc = "exchange",
                                 !.call = CallRefreshToken(refreshToken)]]
       ELSE tick' = [tick EXCEPT ![i] = [t EXCEPT !.pc = "fetch"]]
  /\ UNCHANGED <<env, stationsData, kv, mainpc, boot, started, clock, seeded, lastWriter, overlapped, lastBody>>

\* `await fetch` of the tick's refreshToken resumes
TickResponse(i) ==
  /\ tick[i].pc = "exchange"
  /\ \E status \in FetchOutcomes :
       IF status = "throw"
       THEN tick' = [tick EXCEPT ![i] = Failed]
       ELSE tick' = [tick EXCEPT ![i].pc = "exchange_body",
                                 ![i].call = GotResponse(@, status)]
  /\ UNCHANGED <<env, stationsData, kv, mainpc, boot, started, clock, seeded, lastWriter, overlapped, lastBody>>

\* `await response.text()` or `await response.json()` of the tick's
\* refreshToken resumes; line 184 assigns accessToken
TickBody(i) ==
  /\ tick[i].pc = "exchange_body"
  /\ IF tick[i].call.status = "reject"
     THEN IF RetriesWithEnv(tick[i].call.req)
          THEN tick' = [tick EXCEPT ![i].pc = "exchange",
                                    ![i].call = RetryWithEnv(@)]
          ELSE tick' = [tick EXCEPT ![i] = Failed]
     ELSE \E body \in TokenBodies(i) :
            tick' = [tick EXCEPT ![i].pc = "set_access",
                                 ![i].call = Returned(@, body),
                                 ![i].at = body.access_token]
  /\ UNCHANGED <<env, stationsData, kv, mainpc, boot, started, clock, seeded, lastWriter, overlapped, lastBody>>

\* await kv.set(["accessToken"], accessToken) (line 185)
TickSetAccess(i) ==
  /\ tick[i].pc = "set_access"
  /\ kv' = [kv EXCEPT !.accessToken = tick[i].at]
  /\ tick' = [tick EXCEPT ![i].pc = "set_refresh"]
  /\ UNCHANGED <<env, stationsData, mainpc, boot, started, clock, seeded, lastWriter, overlapped, lastBody>>

\* await kv.set(["refreshToken"], tokenResponse.refresh_token) (line 186);
\* then fetchWeatherData(accessToken) sends its request
TickSetRefresh(i) ==
  /\ tick[i].pc = "set_refresh"
  /\ kv' = [kv EXCEPT !.refreshToken = tick[i].call.pair.refresh_token]
  /\ tick' = [tick EXCEPT ![i].pc = "fetch", ![i].call.pair = NoPair]
  /\ UNCHANGED <<env, stationsData, mainpc, boot, started, clock, seeded, lastWriter, overlapped, lastBody>>

\* Variant: a failed fetch clears the cached snapshot
TickFetchClearing(i) ==
  /\ tick[i].pc = "fetch"
  /\ \E resp \in StationResponses :
       IF resp.kind = "ok"
       THEN /\ tick' = [tick EXCEPT ![i].pc = "set_weather",
                            ![i].at = Absent, ![i].call = NoCall,
                            ![i].wd = fetchWeatherData(resp.devices, clock + 1)]
            /\ clock' = clock + 1
            /\ UNCHANGED kv
       ELSE /\ tick' = [tick EXCEPT ![i] = Failed]
            /\ kv' = [kv EXCEPT !.weatherData = Absent]
            /\ UNCHANGED clock
  /\ UNCHANGED <<env, stationsData, mainpc, boot, started, seeded, lastWriter, overlapped, lastBody>>

\* Variant: a failed fetch drops the stored access token, so that the next
\* invocation exchanges
TickFetchInvalidating(i) ==
  /\ tick[i].pc = "fetch"
  /\ \E resp \in StationResponses :
       IF resp.kind = "ok"
       THEN /\ tick' = [tick EXCEPT ![i].pc = "set_weather",
                            ![i].at = Absent, ![i].call = NoCall,
                            ![i].wd = fetchWeatherData(resp.devices, clock + 1)]
            /\ clock' = clock + 1
            /\ UNCHANGED kv
       ELSE /\ tick' = [tick EXCEPT ![i] = Failed]
            /\ kv' = [kv EXCEPT !.accessToken = Absent]
            /\ UNCHANGED clock
  /\ UNCHANGED <<env, stationsData, mainpc, boot, started, seeded, lastWriter, overlapped, lastBody>>

\* The data endpoint answers the request made with tick[i].at: a non-2xx
\* response or an exception ends the tick, a 2xx body is parsed and Date.now()
\* read (the awaits of lines 151 and 162 touch nothing shared and are taken
\* as one step)
TickFetch(i) ==
  /\ tick[i].pc = "fetch"
  /\ \E resp \in StationResponses :
       IF resp.kind = "ok"
       THEN /\ tick' = [tick EXCEPT ![i].pc = "set_weather",
                            ![i].at = Absent, ![i].call = NoCall,
                            ![i].wd = fetchWeatherData(resp.devices, clock + 1)]
            /\ clock' = clock + 1
       ELSE /\ tick' = [tick EXCEPT ![i] = Failed]
            /\ UNCHANGED clock
  /\ UNCHANGED <<env, stationsData, kv, mainpc, boot, started, seeded, lastWriter, overlapped, lastBody>>

\* Variant: the new readings are merged into the stored snapshot, which
\* keeps its timestamp
TickSetWeatherMerging(i) ==
  /\ tick[i].pc = "set_weather"
  /\ kv' = [kv EXCEPT !.weatherData =
                IF @ = Absent THEN tick[i].wd
                ELSE [@ EXCEPT !.temperature = tick[i].wd.temperature,
                               !.pressure = tick[i].wd.pressure]]
  /\ tick' = [j \in Ticks |->
               IF j = i THEN Done
               ELSE IF Running(j) THEN [tick[j] EXCEPT !.dirty = TRUE]
               ELSE tick[j]]
  /\ lastWriter' = i
  /\ UNCHANGED <<env, stationsData, mainpc, boot, started, clock, seeded, overlapped, lastBody>>

\* Variant: weatherData is written only while the key is absent
TickSetWeatherOnce(i) ==
  /\ tick[i].pc = "set_weather"
  /\ IF kv.weatherData = Absent
     THEN /\ kv' = [kv EXCEPT !.weatherData = tick[i].wd]
          /\ lastWriter' = i
          /\ tick' = [j \in Ticks |->
                       IF j = i THEN Done
                       ELSE IF Running(j) THEN [tick[j] EXCEPT !.dirty = TRUE]
                       ELSE tick[j]]
     ELSE /\ tick' = [tick EXCEPT ![i] = Done]
          /\ UNCHANGED <<kv, lastWriter>>
  /\ UNCHANGED <<env, stationsData, mainpc, boot, started, clock, seeded, overlapped, lastBody>>

\* await kv.set(["weatherData"], weatherData) (line 190)
TickSetWeather(i) ==
  /\ tick[i].pc = "set_weather"
  /\ kv' = [kv EXCEPT !.weatherData = tick[i].wd]
  /\ tick' = [j \in Ticks |->
               IF j = i THEN Done
               ELSE IF Running(j) THEN [tick[j] EXCEPT !.dirty = TRUE]
               ELSE tick[j]]
  /\ lastWriter' = i
  /\ UNCHANGED <<env, stationsData, mainpc, boot, started, clock, seeded, overlapped, lastBody>>

----------------------------------------------------------------------------
(* The read endpoint, main.ts lines 207-237 *)

\* Variant: the handler stores a placeholder when nothing is cached
ServeGetFilling ==
  /\ mainpc = "serving"
  /\ kv' = [kv EXCEPT !.weatherData = IF @ = Absent THEN Snapshot(0, 0, clock) ELSE @]
  /\ lastBody' = kv'.weatherData
  /\ UNCHANGED <<env, stationsData, mainpc, boot, tick, started, clock, seeded, lastWriter, overlapped>>

\* Variant: the handler answers only while no invocation has failed
ServeGetUnlessFailed ==
  /\ mainpc = "serving"
  /\ \A i \in Ticks : tick[i].pc # "failed"
  /\ lastBody' = kv.weatherData
  /\ UNCHANGED <<env, stationsData, kv, mainpc, boot, tick, started, clock, seeded, lastWriter, overlapped>>

\* A GET: await kv.get(["weatherData"]) and the response built from it
ServeGet ==
  /\ mainpc = "serving"
  /\ lastBody' = kv.weatherData
  /\ UNCHANGED <<env, stationsData, kv, mainpc, boot, tick, started, clock, seeded, lastWriter, overlapped>>

----------------------------------------------------------------------------

Next ==
  \/ BootGet
  \/ BootResponse
  \/ BootBody
  \/ BootSetAccess
  \/ BootSetRefresh
  \/ FirstTick
  \/ MainServe
  \/ TimerFire
  \/ \E i \in Ticks : TickGetRefresh(i)
  \/ \E i \in Ticks : TickGetAccess(i)
  \/ \E i \in Ticks : TickResponse(i)
  \/ \E i \in Ticks : TickBody(i)
  \/ \E i \in Ticks : TickSetAccess(i)
  \/ \E i \in Ticks : TickSetRefresh(i)
  \/ \E i \in Ticks : TickFetch(i)
  \/ \E i \in Ticks : TickSetWeather(i)
  \/ ServeGet

Spec == Init /\ [][Next]_vars

\* The steps of initializeTokens, of main after it, and of one invocation
BootSteps == BootGet \/ BootResponse \/ BootBody \/ BootSetAccess \/ BootSetRefresh
MainSteps == FirstTick \/ MainServe \/ TimerFire
TickSteps(i) ==
  \/ TickGetRefresh(i) \/ TickGetAccess(i) \/ TickResponse(i) \/ TickBody(i)
  \/ TickSetAccess(i) \/ TickSetRefresh(i) \/ TickFetch(i) \/ TickSetWeather(i)

\* Every kv operation and every upstream request returns, the event loop
\* resumes whoever awaited it, and the interval timer fires.  Requests to
\* the read endpoint come from outside: nothing obliges them to arrive.
Fairness ==
  /\ WF_vars(BootSteps)
  /\ WF_vars(MainSteps)
  /\ \A i \in Ticks : WF_vars(TickSteps(i))

SpecFair == Spec /\ Fairness

\* A request of tick i to an upstream fails with this step: the token
\* exchange throws or is answered non-2xx, the data fetch fails
UpstreamFails(i) ==
  \/ /\ tick[i].pc = "exchange"
     /\ (tick'[i].pc = "failed" \/ tick'[i].call.status = "reject")
  \/ /\ tick[i].pc = "fetch"
     /\ tick'[i].pc = "failed"

\* The runs of SpecFair in which no request of a tick to an upstream fails
NextHealthy ==
  \/ BootGet
  \/ BootResponse
  \/ BootBody
  \/ BootSetAccess
  \/ BootSetRefresh
  \/ FirstTick
  \/ MainServe
  \/ TimerFire
  \/ \E i \in Ticks : TickGetRefresh(i)
  \/ \E i \in Ticks : TickGetAccess(i)
  \/ \E i \in Ticks : TickResponse(i) /\ ~UpstreamFails(i)
  \/ \E i \in Ticks : TickBody(i)
  \/ \E i \in Ticks : TickSetAccess(i)
  \/ \E i \in Ticks : TickSetRefresh(i)
  \/ \E i \in Ticks : TickFetch(i) /\ ~UpstreamFails(i)
  \/ \E i \in Ticks : TickSetWeather(i)
  \/ ServeGet

SpecHealthy == Init /\ [][NextHealthy]_vars /\ Fairness

----------------------------------------------------------------------------
(* fetchWeatherData over the station-data bodies, main.ts lines 162-174 *)

\* Longest devices array and longest modules array of a body
MaxDevices == 2
MaxModules == 2

SeqsUpTo(S, n) == UNION { [1..k -> S] : k \in 0..n }

\* An _id names at most one entry of an array
AtMostOne(arr, id) == Cardinality({i \in 1..Len(arr) : arr[i].id = id}) <= 1

\* Modules: the configured one without dashboard_data, without a
\* Temperature, with one; and another module
ModuleKinds ==
  { [id |-> ModuleId],
    Module(ModuleId, [Humidity |-> Num(40)]),
    Module(ModuleId, [Temperature |-> Num(21)]),
    Module("other", [Temperature |-> Num(30)]) }

ModuleLists ==
  { ms \in SeqsUpTo(ModuleKinds, MaxModules) : AtMostOne(ms, ModuleId) }

\* Devices: the configured one without dashboard_data, without a Pressure,
\* with one, and without a modules array; and another station that has a
\* module with the configured module id
DeviceKinds ==
  { [id |-> DeviceId, modules |-> ms] : ms \in ModuleLists }
  \cup { Device(DeviceId, dd, ms) :
           dd \in { [Temperature |-> Num(19)],
                    [Temperature |-> Num(19), Pressure |-> Num(1013)] },
           ms \in ModuleLists }
  \cup { [id |-> DeviceId, dashboard_data |-> [Pressure |-> Num(1013)]] }
  \cup { Device("other", [Pressure |-> Num(1000)],
                <<Module(ModuleId, [Temperature |-> Num(5)])>>) }

\* The bodies fetchWeatherData is applied to
StationsData ==
  { ds \in SeqsUpTo(DeviceKinds, MaxDevices) : AtMostOne(ds, DeviceId) }

\* The first updateWeatherData of a run whose bootstrap stored a fresh pair
\* has sent its station-data request, which is answered 2xx with this body
InitFetch ==
  /\ stationsData \in StationsData
  /\ env = EnvToken
  /\ kv = [refreshToken |-> NewRefresh(0), accessToken |-> NewAccess(0),
           weatherData |-> Absent]
  /\ mainpc = "first_tick"
  /\ boot = NoBoot
  /\ tick = [i \in Ticks |->
              IF i = 1 THEN [IdleTick EXCEPT !.pc = "fetch", !.at = NewAccess(0)]
              ELSE IdleTick]
  /\ started = 1
  /\ clock = 1
  /\ seeded = TRUE
  /\ lastWriter = 0
  /\ overlapped = FALSE
  /\ lastBody = Absent

\* `await response.json()` resumes with the body and lines 163-174 run
ParseStationsData ==
  /\ tick[1].pc = "fetch"
  /\ IF FetchThrows(stationsData)
     THEN /\ tick' = [tick EXCEPT ![1] = Failed]
          /\ UNCHANGED clock
     ELSE /\ tick' = [tick EXCEPT ![1].pc = "set_weather",
                          ![1].at = Absent, ![1].call = NoCall,
                          ![1].wd = fetchWeatherData(stationsData, clock + 1)]
          /\ clock' = clock + 1
  /\ UNCHANGED <<env, stationsData, kv, mainpc, boot, started, seeded, lastWriter, overlapped, lastBody>>

NextFetch == ParseStationsData

SpecFetch == InitFetch /\ [][NextFetch]_vars

----------------------------------------------------------------------------
(* Properties *)

\* The callers of refreshToken: 0 is initializeTokens, i the i-th tick
Procs == {0} \cup Ticks
CallOf(p) == IF p = 0 THEN boot.call ELSE tick[p].call
InFlight(p) == CallOf(p).req
\* p is reading the body of a response of the token endpoint
ReadingBody(p) == IF p = 0 THEN mainpc = "boot_body" ELSE tick[p].pc = "exchange_body"
\* p's refreshToken call has thrown
Threw(p) == IF p = 0 THEN mainpc = "aborted" ELSE tick[p].pc = "failed"
\* p is about to write the refresh token of the pair it was returned
AtSetRefresh(p) == IF p = 0 THEN mainpc = "boot_set_refresh" ELSE tick[p].pc = "set_refresh"
AtSetAccess(p) == IF p = 0 THEN mainpc = "boot_set_access" ELSE tick[p].pc = "set_access"

\* C1: at most one token-exchange request carrying a given refresh-token
\* value is in flight at any time, whatever the interleaving of bootstrap
\* and ticks.
C1_OneExchangeInFlightPerToken ==
  \A p, q \in Procs :
    (p # q /\ InFlight(p) # NoReq) => InFlight(q) # InFlight(p)

\* The tick read no usable access token and is in its exchange
ExchangingTick(i) ==
  /\ tick[i].pc \in {"exchange", "exchange_body"}
  /\ ~Truthy(tick[i].at)
TopLevelCalls(i) == IF tick[i].call.attempts > 0 THEN 1 ELSE 0

\* C2: two ticks that run concurrently and both read no accessToken make
\* one exchange call between them (the second waits for the first's result).
C2_OneExchangeForConcurrentTicks ==
  \A i, j \in Ticks :
    (i # j /\ ExchangingTick(i) /\ ExchangingTick(j))
      => TopLevelCalls(i) + TopLevelCalls(j) = 1

\* Tick i ends in its catch block with this step
FailsNow(i) == tick[i].pc # "failed" /\ tick'[i].pc = "failed"

\* C3 as stated: when a tick fails, weatherData has the value it had when
\* the tick started.
C3_FailedTickSeesOldWeather ==
  [][\A i \in Ticks : FailsNow(i) => kv'.weatherData = tick[i].wdBefore]_vars

\* After a failed tick main is still going and the timer can fire again
NextTickStillRuns ==
  \A i \in Ticks :
    tick[i].pc = "failed" =>
      \/ mainpc = "first_tick" /\ ENABLED MainServe
      \/ mainpc = "serving" /\ (started < MaxTicks => ENABLED TimerFire)

\* C3 amended: a failing tick writes nothing: the step that fails it leaves
\* the store as it is, weatherData has the value it had when the tick
\* started unless another tick has written it since, the failure stays
\* inside the tick and the next tick can still be started.
C3_FailedTickKeepsWeather ==
  /\ []NextTickStillRuns
  /\ [][\A i \in Ticks :
          FailsNow(i) =>
            /\ kv' = kv
            /\ mainpc' = mainpc
            /\ (~tick[i].dirty => kv.weatherData = tick[i].wdBefore)]_vars

C3_Witness ==
  \E i, j \in Ticks :
    /\ tick[i].pc = "failed" /\ tick[j].pc = "done"
    /\ i < j /\ overlapped
    /\ kv.weatherData.k = "snapshot"

\* Requests a refreshToken call started with token `first` sends when the
\* endpoint rejects every one of them
AttemptsWhenRejected(first) == IF Truthy(env) /\ env # first THEN 2 ELSE 1

\* C4: a refreshToken call whose token is rejected makes exactly one more
\* attempt, with the configured token, when that token is non-empty and
\* differs from the one it started with, and none otherwise; it then throws.
\* A call never sends more than two requests.
C4_OneRetryThenFailure ==
  /\ [](\A p \in Procs : CallOf(p).attempts <= 2)
  /\ [][\A p \in Procs :
          (ReadingBody(p) /\ CallOf(p).status = "reject" /\ ~ReadingBody(p)') =>
            IF CallOf(p).attempts < AttemptsWhenRejected(CallOf(p).first)
            THEN /\ ~Threw(p)'
                 /\ InFlight(p)' = env
                 /\ CallOf(p)'.attempts = CallOf(p).attempts + 1
            ELSE /\ Threw(p)'
                 /\ CallOf(p).attempts = AttemptsWhenRejected(CallOf(p).first)]_vars

C4_Witness ==
  /\ mainpc = "aborted"
  /\ boot.err = "rejected"
  /\ boot.call.attempts = 2
  /\ boot.call.first = OldRefresh

\* C5: when bootstrap's exchange has failed, the refreshToken and the
\* accessToken keys are both absent from the store.
C5_FailedBootstrapClearsTokens ==
  (mainpc = "aborted" /\ boot.call.attempts >= 1) =>
    (kv.refreshToken = Absent /\ kv.accessToken = Absent)

\* C6: when the store holds no refreshToken and the endpoint accepts the
\* configured token T, bootstrap has sent T once, the store then holds the
\* returned pair, and T is never in a request again.
C6_BootstrapTokenUsedOnce ==
  seeded =>
    /\ \A p \in Procs : InFlight(p) # env
    /\ mainpc \in {"boot_set_access", "boot_set_refresh"} =>
         (boot.call.attempts = 1 /\ boot.call.pair.refresh_token = NewRefresh(0))
    /\ (mainpc = "first_tick" /\ started = 0) =>
         (kv.refreshToken = NewRefresh(0) /\ kv.accessToken = NewAccess(0))

C6_Witness ==
  /\ seeded
  /\ env = EnvToken
  /\ started = MaxTicks
  /\ \E i \in Ticks : i > 1 /\ tick[i].pc = "done"

C8_TickExchangesBeforeFetch ==
  \A i \in Ticks : tick[i].pc = "fetch" => tick[i].call.attempts >= 1

\* Tick i takes this step
Steps(i) == tick'[i].pc # tick[i].pc

\* C9: a tick that reads an accessToken sends no exchange and writes neither
\* token key; a tick that reads none (and a refreshToken) sends the
\* refreshToken it read, and on success writes both keys from the returned
\* pair and fetches with the returned access token.
C9_ExchangeOnlyWithoutAccessToken ==
  /\ [](\A i \in Ticks :
          /\ (tick[i].pc = "fetch" /\ tick[i].call.attempts = 0) => Truthy(tick[i].at)
          /\ tick[i].pc \in {"set_access", "set_refresh"} => tick[i].call.attempts >= 1)
  /\ [][\A i \in Ticks :
          /\ (tick[i].pc = "get_access" /\ Steps(i) /\ Truthy(tick[i].rt)) =>
               IF Truthy(kv.accessToken)
               THEN /\ tick'[i].pc = "fetch"
                    /\ tick'[i].at = kv.accessToken
                    /\ InFlight(i)' = NoReq
                    /\ tick'[i].call.attempts = 0
               ELSE /\ tick'[i].pc = "exchange"
                    /\ InFlight(i)' = tick[i].rt
          /\ (Steps(i) /\ tick[i].call.attempts = 0) =>
               (kv'.accessToken = kv.accessToken /\ kv'.refreshToken = kv.refreshToken)
          /\ (AtSetAccess(i) /\ Steps(i)) =>
               kv'.accessToken = tick[i].call.pair.access_token
          /\ (AtSetRefresh(i) /\ Steps(i)) =>
               /\ kv'.refreshToken = tick[i].call.pair.refresh_token
               /\ kv'.accessToken = kv.accessToken
               /\ tick'[i].pc = "fetch"
               /\ tick'[i].at = tick[i].call.pair.access_token]_vars

C9_Witness ==
  \E i, j \in Ticks :
    /\ tick[i].pc = "fetch" /\ tick[i].call.attempts = 0
    /\ tick[j].pc = "fetch" /\ tick[j].call.attempts >= 1
    /\ tick[j].at = NewAccess(j)

\* C10: when the ticks have run one after another and the last one has
\* completed, weatherData was last written by that tick, and what a tick
\* writes is the snapshot its own fetch produced.
C10_LastTickWins ==
  /\ []((~overlapped /\ started >= 1 /\ tick[IF started = 0 THEN 1 ELSE started].pc = "done")
          => (lastWriter = started /\ kv.weatherData.k = "snapshot"))
  /\ [][\A i \in Ticks :
          (tick[i].pc = "set_weather" /\ Steps(i)) =>
             (kv'.weatherData = tick[i].wd /\ tick[i].wd.k = "snapshot")]_vars

C10_Witness ==
  /\ ~overlapped
  /\ started = MaxTicks
  /\ \A i \in Ticks : tick[i].pc = "done"
  /\ lastWriter = MaxTicks

\* Tick i completes a successful fetch with this step: it writes its snapshot
WritesWeather(i) == tick[i].pc = "set_weather" /\ tick'[i].pc = "done"

\* The step belongs to initializeTokens
BootstrapStep == mainpc \notin {"first_tick", "serving"}

\* C11: weatherData stays absent until a tick completes a successful fetch;
\* once present it is never absent again; it changes only in the step that
\* completes a successful fetch, where it becomes that fetch's snapshot as a
\* whole; a failing tick and a bootstrap step leave it as it is.
C11_WeatherDataOnlyFromFetch ==
  /\ [](lastWriter = 0 => kv.weatherData \in {Absent, OldSnapshot})
  /\ [][/\ kv.weatherData # Absent => kv'.weatherData # Absent
        /\ kv'.weatherData # kv.weatherData =>
             \E i \in Ticks : /\ WritesWeather(i)
                               /\ tick[i].wd.k = "snapshot"
                               /\ kv'.weatherData = tick[i].wd
        /\ ((\E i \in Ticks : FailsNow(i)) \/ BootstrapStep) =>
             kv'.weatherData = kv.weatherData]_vars

C11_Witness ==
  /\ lastWriter = 1
  /\ kv.weatherData.k = "snapshot" /\ kv.weatherData # OldSnapshot
  /\ \E i \in Ticks : i > 1 /\ tick[i].pc = "failed"

\* C12: a request to the read endpoint leaves the three keys of the store
\* unchanged, a step of bootstrap leaves weatherData unchanged, and
\* weatherData changes only in a step of a tick.
C12_WriteOwnership ==
  [][/\ lastBody' # lastBody => kv' = kv
     /\ BootstrapStep => kv'.weatherData = kv.weatherData
     /\ kv'.weatherData # kv.weatherData => \E i \in Ticks : Steps(i)]_vars

C12_Witness ==
  /\ mainpc = "serving"
  /\ seeded
  /\ lastWriter = 2
  /\ lastBody = kv.weatherData
  /\ lastBody.k = "snapshot" /\ lastBody # OldSnapshot

\* A snapshot that one fetch produced as a whole (or that an earlier run left)
WholeSnapshot(v) ==
  /\ v.k = "snapshot"
  /\ \/ v = OldSnapshot
     \/ \E d \in StationBodies : v = fetchWeatherData(d, v.timestamp)

\* C13: while the server is up a GET is always answered, whatever the ticks
\* are doing or have failed at; the body of the answer is weatherData as the
\* handler's one read found it, null or the whole snapshot of one fetch.
C13_ReadsServeTheCache ==
  /\ [](mainpc = "serving" => ENABLED ServeGet)
  /\ [](lastBody = Absent \/ WholeSnapshot(lastBody))
  /\ [][lastBody' # lastBody => (mainpc = "serving" /\ lastBody' = kv.weatherData)]_vars

C13_Witness ==
  /\ mainpc = "serving"
  /\ lastBody = kv.weatherData
  /\ lastBody.k = "snapshot" /\ lastBody.timestamp > 1
  /\ \E i, j \in Ticks : /\ tick[i].pc = "failed"
                          /\ tick[j].pc \in {"exchange_body", "fetch"}
                          /\ tick[j].dirty

\* C14: the store never holds an undefined accessToken or refreshToken, a
\* token response without one of the two fields making the exchange fail
\* before its caller writes anything.
C14_NoUndefinedTokenStored ==
  kv.accessToken # Undefined /\ kv.refreshToken # Undefined

C16_NothingRunsBeforeBootstrap ==
  /\ mainpc \notin {"first_tick", "serving"} =>
       /\ started = 0
       /\ \A i \in Ticks : tick[i] = IdleTick
       /\ lastWriter = 0
       /\ ~ENABLED FirstTick /\ ~ENABLED TimerFire /\ ~ENABLED ServeGet
  /\ mainpc = "aborted" => (boot.err # "none" /\ ~ENABLED Next)
  /\ mainpc \in {"first_tick", "serving"} => boot = NoBoot

C16_Witness ==
  /\ mainpc = "aborted"
  /\ boot.err = "rejected"
  /\ boot.call.attempts = 1
  /\ kv.weatherData = Absent

\* Every device of the body has a modules array
HasModuleLists(devices) ==
  \A i \in 1..Len(devices) : "modules" \in DOMAIN devices[i]

\* The number a device or module reports for a field of its dashboard_data,
\* 0 when the field or the dashboard_data is missing
Reading(obj, field) ==
  IF "dashboard_data" \in DOMAIN obj /\ field \in DOMAIN obj.dashboard_data
  THEN obj.dashboard_data[field].n
  ELSE 0

\* C17: for a 2xx body whose devices all have module lists fetchWeatherData
\* returns: pressure is the Pressure of the device with the configured id,
\* temperature the Temperature of the module with the configured id inside
\* that device; temperature is 0 when the device, the module or its
\* Temperature is missing, pressure 0 when the device or its Pressure is.
C17_ReadingsOfConfiguredStation ==
  (tick[1].pc # "fetch" /\ HasModuleLists(stationsData)) =>
    LET wd == tick[1].wd
        ds == {i \in 1..Len(stationsData) : stationsData[i].id = DeviceId}
    IN /\ tick[1].pc = "set_weather"
       /\ wd.k = "snapshot"
       /\ wd.timestamp = clock
       /\ IF ds = {}
          THEN wd.temperature = 0 /\ wd.pressure = 0
          ELSE \A i \in ds :
                 LET modules == stationsData[i].modules
                     ms == {j \in 1..Len(modules) : modules[j].id = ModuleId}
                 IN /\ wd.pressure = Reading(stationsData[i], "Pressure")
                    /\ IF ms = {}
                       THEN wd.temperature = 0
                       ELSE \A j \in ms :
                              wd.temperature = Reading(modules[j], "Temperature")

C17_Witness ==
  /\ tick[1].pc = "set_weather"
  /\ Len(stationsData) = MaxDevices
  /\ stationsData[1].id # DeviceId
  /\ Len(stationsData[MaxDevices].modules) = MaxModules
  /\ stationsData[MaxDevices].modules[1].id # ModuleId
  /\ tick[1].wd.temperature = 21
  /\ tick[1].wd.pressure = 0

\* C18: a tick fetches with an access token that an exchange returned only
\* when both fields of the returned pair have been written to the store:
\* the caller of that exchange is past its write of the refresh token.
C18_PairStoredBeforeUse ==
  \A i \in Ticks, p \in Procs :
    (tick[i].pc = "fetch" /\ tick[i].at = NewAccess(p)) => ~AtSetRefresh(p)

\* Bootstrap has completed and the access token it stored is in the store
BootstrapAccessStored ==
  mainpc \in {"first_tick", "serving"} /\ kv.accessToken = NewAccess(0)

\* C20: once bootstrap has stored a non-empty access token, no tick sends
\* an exchange request, every tick that fetches does so with that token, and
\* no step changes the accessToken or the refreshToken of the store, a
\* failed fetch included.
C20_BootstrapTokensKept ==
  /\ [](BootstrapAccessStored =>
          \A i \in Ticks :
            /\ tick[i].call = NoCall
            /\ tick[i].pc \notin {"exchange", "exchange_body", "set_access", "set_refresh"}
            /\ tick[i].pc = "fetch" => tick[i].at = NewAccess(0))
  /\ [][BootstrapAccessStored =>
          /\ kv'.accessToken = kv.accessToken
          /\ kv'.refreshToken = kv.refreshToken
          /\ BootstrapAccessStored']_vars

C20_Witness ==
  /\ BootstrapAccessStored
  /\ kv.refreshToken = NewRefresh(0)
  /\ started = MaxTicks
  /\ \A i \in Ticks : tick[i].pc = "failed"
  /\ kv.weatherData = Absent

\* C19: when bootstrap has succeeded and the requests of the ticks to the
\* upstreams succeed, weatherData is eventually present.
C19_HealthyUpstreamFillsCache ==
  (mainpc = "first_tick") ~> (kv.weatherData # Absent)
====
